---------------------------- MODULE Spec2Model ----------------------------
(***************************************************************************)
(* GoldenArabicAI backend (chatgoldenAI/chatgoldenai).                     *)
(*                                                                         *)
(* Four specifications share this module:                                  *)
(*   Spec        the HTTP gateway of the two OAuth variants (src/index.js  *)
(*               and src/unnamed/part_000): sessions, GET /api/me,         *)
(*               POST /logout, POST /api/chat with its external inference  *)
(*               calls, and the chat-history endpoints;                    *)
(*   SpecHistory saveChatMessage and DELETE /api/chat/history run against  *)
(*               the real limit of 50 entries;                             *)
(*   SpecRoutes  express's first-match routing over the registration order *)
(*               of each variant;                                          *)
(*   SpecLedger  the credit ledger of spec.md 4.1 and 5 (its code is not   *)
(*               among the source files, so it is modelled from the spec). *)
(* Every specification leaves the variables of the others untouched.       *)
(***************************************************************************)
EXTENDS Integers, Sequences, FiniteSets, TLC

VARIABLES
    variant,      \* which server file is running: "index" or "part000"
    apiKeySet,    \* process.env.OPENAI_API_KEY is set
    session,      \* per browser (session cookie): req.user, or NoUser
    chatHistory,  \* part_000: const chatHistory = new Map()  (email -> entries)
    clock,        \* new Date(), as the number of entries saved so far per email
    saved,        \* per email: every entry saved since the last clear (SpecHistory)
    reqs,         \* POST /api/chat requests: position and locals of each handler run
    resp,         \* the HTTP response sent by the last step, if it sent one
    files,        \* the files present in __dirname (SpecRoutes)
    routed,       \* the last request routed and what answered it (SpecRoutes)
    store,        \* the persisted user document (SpecLedger)
    opening,      \* the store as it was at start (SpecLedger)
    tasks         \* unlockFeature calls in flight (SpecLedger)

vars == <<variant, apiKeySet, session, chatHistory, clock, saved, reqs, resp,
          files, routed, store, opening, tasks>>

gatewayVars == <<variant, apiKeySet, session, chatHistory, clock, reqs, resp>>
routeVars   == <<files, routed>>
ledgerVars  == <<store, opening, tasks>>

Nil == "nil"

Min(a, b) == IF a < b THEN a ELSE b

(***************************************************************************)
(*                          THE CREDIT LEDGER                              *)
(* spec.md 3, 4.1, 5.  One JSON document maps a user key to a record; it   *)
(* is loaded and saved wholesale, with no locking.                         *)
(***************************************************************************)

\* Number of unlockFeature calls a run may make.
MaxTasks == 2

Tasks == 1..MaxTasks

\* deriveKey(externalId, provider): the pair stands for "<externalId>@<provider>".
deriveKey(externalId, provider) == <<externalId, provider>>

Keys == {deriveKey("123", "google"), deriveKey("123", "github")}

Features == {"image", "code"}

\* The costs and balances of the scenario of spec.md 8 (100, 40, 70), a free
\* unlock, and the balance N*cost of the concurrency property.
Costs == {0, 40, 70}

OpeningBalances == {MaxTasks * 40, 100}

\* getBalance(userKey): 0 for an unknown key.
getBalance(doc, userKey) ==
    IF userKey \in DOMAIN doc THEN doc[userKey].balance ELSE 0

\* isFeatureActive(userKey, featureName): subscriptions[featureName] exists.
isFeatureActive(doc, userKey, featureName) ==
    /\ userKey \in DOMAIN doc
    /\ featureName \in doc[userKey].subscriptions

\* The debit and the subscription write on the loaded document.
Debit(doc, userKey, featureName, cost) ==
    [doc EXCEPT ![userKey] =
        [balance       |-> doc[userKey].balance - cost,
         subscriptions |-> doc[userKey].subscriptions \cup {featureName}]]

IdleTask ==
    [pc |-> "idle", key |-> Nil, feature |-> Nil, cost |-> 0, doc |-> << >>,
     read |-> 0, result |-> "none", newBalance |-> 0]

InitLedgerVars ==
    /\ store \in [Keys -> [balance : OpeningBalances, subscriptions : {{}}]]
    /\ opening = store
    /\ tasks = [t \in Tasks |-> IdleTask]

IdleLedger ==
    /\ store = << >>
    /\ opening = << >>
    /\ tasks = << >>

\* unlockFeature(userKey, featureName, cost) is called: the document is loaded.
UnlockLoad(t, userKey, featureName, cost) ==
    /\ tasks[t].pc = "idle"
    /\ \A s \in Tasks : s < t => tasks[s].pc # "idle"
    /\ tasks' = [tasks EXCEPT ![t] =
            [pc |-> "loaded", key |-> userKey, feature |-> featureName,
             cost |-> cost, doc |-> store, read |-> getBalance(store, userKey),
             result |-> "none", newBalance |-> 0]]
    /\ UNCHANGED <<store, opening>>

\* The check Fails-with-InsufficientBalance, with the store written as well.
UnlockCheckPartialDebit(t) ==
    /\ tasks[t].pc = "loaded"
    /\ LET c == tasks[t] IN
        IF getBalance(c.doc, c.key) < c.cost
        THEN /\ tasks' = [tasks EXCEPT ![t] =
                    [c EXCEPT !.pc = "done", !.doc = << >>,
                              !.result = "InsufficientBalance"]]
             /\ store' = [store EXCEPT ![c.key].balance = 0]
        ELSE /\ tasks' = [tasks EXCEPT ![t] =
                    [c EXCEPT !.pc = "debited",
                              !.doc = Debit(c.doc, c.key, c.feature, c.cost)]]
             /\ store' = store
    /\ UNCHANGED opening

\* The debit with no balance check in front of it.
UnlockCheckNoGuard(t) ==
    /\ tasks[t].pc = "loaded"
    /\ LET c == tasks[t] IN
        tasks' = [tasks EXCEPT ![t] =
            [c EXCEPT !.pc = "debited",
                      !.doc = Debit(c.doc, c.key, c.feature, c.cost)]]
    /\ UNCHANGED <<store, opening>>

\* The check getBalance(userKey) < cost, then the debit on the loaded document.
UnlockCheck(t) ==
    /\ tasks[t].pc = "loaded"
    /\ LET c == tasks[t] IN
        IF getBalance(c.doc, c.key) < c.cost
        THEN tasks' = [tasks EXCEPT ![t] =
                [c EXCEPT !.pc = "done", !.doc = << >>,
                          !.result = "InsufficientBalance"]]
        ELSE tasks' = [tasks EXCEPT ![t] =
                [c EXCEPT !.pc = "debited",
                          !.doc = Debit(c.doc, c.key, c.feature, c.cost)]]
    /\ UNCHANGED <<store, opening>>

\* The persist step that saves the document as it was loaded, debit dropped.
UnlockPersistStale(t) ==
    /\ tasks[t].pc = "debited"
    /\ LET c == tasks[t] IN
        /\ store' = [c.doc EXCEPT ![c.key] =
                [balance |-> c.read, subscriptions |-> c.doc[c.key].subscriptions]]
        /\ tasks' = [tasks EXCEPT ![t] =
                [c EXCEPT !.pc = "done", !.doc = << >>, !.result = "success",
                          !.newBalance = getBalance(c.doc, c.key)]]
    /\ UNCHANGED opening

\* The whole document is saved; the call returns {success, newBalance}.
UnlockPersist(t) ==
    /\ tasks[t].pc = "debited"
    /\ LET c == tasks[t] IN
        /\ store' = c.doc
        /\ tasks' = [tasks EXCEPT ![t] =
                [c EXCEPT !.pc = "done", !.doc = << >>, !.result = "success",
                          !.newBalance = getBalance(c.doc, c.key)]]
    /\ UNCHANGED opening


(***************************************************************************)
(*                      THE CHAT HISTORY (part_000)                        *)
(***************************************************************************)

\* part_000: if (history.length > 50) ... history.slice(-50)
HistoryLimit == 50

\* Array.prototype.slice(-n): the last n elements, all of them when fewer.
SliceLast(s, n) ==
    IF Len(s) <= n THEN s ELSE SubSeq(s, Len(s) - n + 1, Len(s))

\* chatHistory.get(email) || []
HistoryGet(h, email) ==
    IF email \in DOMAIN h THEN h[email] ELSE << >>

\* chatHistory.set(email, value)
HistorySet(h, email, value) ==
    [e \in DOMAIN h \cup {email} |-> IF e = email THEN value ELSE h[e]]

\* The object saveChatMessage pushes.
Entry(timestamp, message, response, actionType) ==
    [timestamp |-> timestamp, userMessage |-> message,
     aiResponse |-> response, actionType |-> actionType]

\* saveChatMessage that trims to the first 50 entries instead of the last.
saveChatMessageKeepFirst(h, email, entry) ==
    LET pushed == Append(HistoryGet(h, email), entry) IN
    IF Len(pushed) > HistoryLimit
    THEN HistorySet(h, email, SubSeq(pushed, 1, HistoryLimit))
    ELSE HistorySet(h, email, pushed)

\* saveChatMessage(email, message, response, actionType): the map afterwards.
saveChatMessage(h, email, entry) ==
    LET h1     == IF email \in DOMAIN h THEN h ELSE HistorySet(h, email, << >>)
        pushed == Append(h1[email], entry) IN
    IF Len(pushed) > HistoryLimit
    THEN HistorySet(h1, email, SliceLast(pushed, HistoryLimit))
    ELSE HistorySet(h1, email, pushed)

(***************************************************************************)
(*                     USERS, SESSIONS, JS VALUES                          *)
(***************************************************************************)

\* req.user is undefined.
NoUser == [id |-> Nil, provider |-> Nil, email |-> Nil]

\* The user object the GoogleStrategy verify callback builds.
GoogleUser(id, email) == [id |-> id, provider |-> "google", email |-> email]

\* The user object the GitHubStrategy verify callback builds.
GitHubUser(id, email) == [id |-> id, provider |-> "github", email |-> email]

\* Two accounts of different providers with one email, and a third account.
Users ==
    {GoogleUser("1001", "sam@mail"), GitHubUser("2002", "sam@mail"),
     GitHubUser("2003", "kim@mail")}

Emails == {u.email : u \in Users}

\* spec.md 3: the key of the (externalId, provider) pair of an account.
KeyOf(u) == deriveKey(u.id, u.provider)

Clients == {"browser1"}

\* JavaScript values a request body can hold in `message`.
JsString(chars) == [type |-> "string", text |-> chars]

JsUndefined == [type |-> "undefined", text |-> << >>]

JsNumber == [type |-> "number", text |-> << >>]

Messages == {JsString(<<"h", "i">>), JsString(<<" ">>), JsUndefined, JsNumber}

RECURSIVE TrimLeft(_)
\* String.prototype.trim, left side.
TrimLeft(chars) ==
    IF chars # << >> /\ Head(chars) = " " THEN TrimLeft(Tail(chars)) ELSE chars

RECURSIVE TrimRight(_)
\* String.prototype.trim, right side.
TrimRight(chars) ==
    IF chars # << >> /\ chars[Len(chars)] = " "
    THEN TrimRight(SubSeq(chars, 1, Len(chars) - 1))
    ELSE chars

Trim(chars) == TrimRight(TrimLeft(chars))

\* !message
Falsy(v) == v.type = "undefined" \/ (v.type = "string" /\ v.text = << >>)

\* index.js: !message || typeof message !== "string" || message.trim() === ""
InvalidMessage(m) ==
    \/ Falsy(m)
    \/ m.type # "string"
    \/ Trim(m.text) = << >>

\* An actionType that is a truthy JSON value other than a string (a number,
\* true, an array): it has no toLowerCase method.
NumberAction == "<number>"

\* The values of actionType; Nil is a body without the field.
ActionTypes == {"chat", "image", "code", "translate", "IMAGE", NumberAction, Nil}

\* index.js: (actionType || "chat").toLowerCase() throws a TypeError.
LowerCaseThrows(actionType) == actionType = NumberAction

\* String.prototype.toLowerCase on the strings above.
ToLowerCase(a) == IF a = "IMAGE" THEN "image" ELSE a

\* index.js: switch ((actionType || "chat").toLowerCase())
HandlerIndex(actionType) ==
    LET key == ToLowerCase(IF actionType = Nil THEN "chat" ELSE actionType) IN
    IF key \in {"image", "code", "translate"} THEN key ELSE "chat"

\* part_000: switch (actionType)
HandlerPart000(actionType) ==
    IF actionType \in {"chat", "image", "code", "translate"}
    THEN actionType ELSE "chat"

\* The type field of what each handle* function returns.
ResultType(handler) ==
    CASE handler = "image"     -> "image"
      [] handler = "code"      -> "code"
      [] handler = "translate" -> "translation"
      [] OTHER                 -> "text"

(***************************************************************************)
(*                            THE GATEWAY                                  *)
(***************************************************************************)

\* Number of POST /api/chat requests a run may make (all may be in flight).
MaxReq == 2

Reqs == 1..MaxReq

Variants == {"index", "part000"}

NoResponse == [route |-> "none"]

IdleReq ==
    [pc |-> "idle", user |-> NoUser, message |-> JsUndefined, actionType |-> Nil,
     handler |-> "none", calls |-> << >>, responses |-> << >>]

InitGatewayVars ==
    /\ variant \in Variants
    /\ apiKeySet \in BOOLEAN
    /\ session = [c \in Clients |-> NoUser]
    /\ chatHistory = << >>
    /\ clock = [e \in Emails |-> 0]
    /\ reqs = [r \in Reqs |-> IdleReq]
    /\ resp = NoResponse

IdleGateway ==
    /\ variant = Nil
    /\ apiKeySet = FALSE
    /\ session = << >>
    /\ chatHistory = << >>
    /\ clock = << >>
    /\ reqs = << >>
    /\ resp = NoResponse

\* passport.authenticate callback: done(null, user) stores the user in the
\* session, and the callback route redirects to "/".
Login(c, u) ==
    /\ session' = [session EXCEPT ![c] = u]
    /\ resp' = [route |-> "login", status |-> 302]
    /\ UNCHANGED <<variant, apiKeySet, chatHistory, clock, reqs>>

\* POST /logout: req.logout, then req.session.destroy, then {ok: true}.
Logout(c) ==
    /\ session' = [session EXCEPT ![c] = NoUser]
    /\ resp' = [route |-> "logout", status |-> 200]
    /\ UNCHANGED <<variant, apiKeySet, chatHistory, clock, reqs>>

\* GET /api/me that answers from the session cookie alone: loggedIn whatever
\* req.user is.
MeBodyAlwaysLoggedIn(user) ==
    [loggedIn |-> TRUE, email |-> user.email, plan |-> "free", balance |-> 0]

\* GET /api/me: the JSON body for req.user.
MeBody(user) ==
    IF user = NoUser
    THEN [loggedIn |-> FALSE, plan |-> "free", balance |-> 0]
    ELSE [loggedIn |-> TRUE, email |-> user.email, plan |-> "free", balance |-> 0]

\* GET /api/me
GetMe(c) ==
    /\ resp' = [route |-> "me", status |-> 200, user |-> session[c],
                body |-> MeBody(session[c])]
    /\ UNCHANGED <<variant, apiKeySet, session, chatHistory, clock, reqs>>

\* GET /api/chat/history (part_000)
GetHistory(c) ==
    /\ variant = "part000"
    /\ resp' = IF session[c] = NoUser
               THEN [route |-> "history", status |-> 401, user |-> NoUser]
               ELSE [route |-> "history", status |-> 200, user |-> session[c],
                     history |-> HistoryGet(chatHistory, session[c].email)]
    /\ UNCHANGED <<variant, apiKeySet, session, chatHistory, clock, reqs>>

\* DELETE /api/chat/history (part_000)
DeleteHistory(c) ==
    /\ variant = "part000"
    /\ IF session[c] = NoUser
       THEN /\ resp' = [route |-> "clear", status |-> 401, user |-> NoUser]
            /\ UNCHANGED chatHistory
       ELSE /\ resp' = [route |-> "clear", status |-> 200, user |-> session[c]]
            /\ chatHistory' = HistorySet(chatHistory, session[c].email, << >>)
    /\ UNCHANGED <<variant, apiKeySet, session, clock, reqs>>

\* The request record once its response has been sent: the handler's locals
\* are gone, the responses it sent remain.
Responded(rq, status) ==
    [IdleReq EXCEPT !.pc = "done", !.responses = Append(rq.responses, status)]

\* The response of POST /api/chat, with the request it answers.
ChatResponse(r, rq, status, type) ==
    [route |-> "chat", status |-> status, type |-> type, req |-> r,
     user |-> rq.user, message |-> rq.message, actionType |-> rq.actionType,
     handler |-> rq.handler, calls |-> rq.calls]

\* The request record once `await openai.<api>` has been issued.
Called(rq, api, pc) ==
    [rq EXCEPT !.pc = pc, !.calls = Append(@, api)]

\* A catch block that issues the failed call again instead of answering.
CatchRetry(r, rq) ==
    IF rq.calls = << >>
    THEN /\ reqs' = [reqs EXCEPT ![r] = Responded(rq, 500)]
         /\ resp' = ChatResponse(r, rq, 500, "error")
    ELSE /\ reqs' = [reqs EXCEPT ![r] =
                Called(rq, rq.calls[Len(rq.calls)], rq.pc)]
         /\ resp' = NoResponse

\* A catch block that logs the error and sends nothing.
CatchSilent(r, rq) ==
    /\ reqs' = [reqs EXCEPT ![r] = [rq EXCEPT !.pc = "caught"]]
    /\ resp' = NoResponse

\* catch (error): sendError(res, 500, ...) / res.status(500).json(...)
Catch(r, rq) ==
    /\ reqs' = [reqs EXCEPT ![r] = Responded(rq, 500)]
    /\ resp' = ChatResponse(r, rq, 500, "error")

\* An early return with an error status, before any handler is chosen.
Reject(r, rq, status) ==
    /\ reqs' = [reqs EXCEPT ![r] = Responded(rq, status)]
    /\ resp' = ChatResponse(r, rq, status, "error")

\* The handle* function is entered and awaits its first external call.
Delegate(r, rq, handler) ==
    /\ reqs' = [reqs EXCEPT ![r] =
            Called([rq EXCEPT !.handler = handler],
                   "chat.completions", "awaitCompletion")]
    /\ resp' = NoResponse

\* index.js POST /api/chat with the two early checks in the other order: the
\* API key first, the message second.
ChatPostIndexKeyFirst(r, c, message, actionType) ==
    /\ variant = "index"
    /\ reqs[r].pc = "idle"
    /\ \A q \in Reqs : q < r => reqs[q].pc # "idle"
    /\ LET rq == [IdleReq EXCEPT !.user = session[c], !.message = message,
                                 !.actionType = actionType] IN
        IF ~apiKeySet THEN Reject(r, rq, 500)
        ELSE IF InvalidMessage(message) THEN Reject(r, rq, 400)
        ELSE IF LowerCaseThrows(actionType) THEN Catch(r, rq)
        ELSE Delegate(r, rq, HandlerIndex(actionType))
    /\ UNCHANGED <<variant, apiKeySet, session, chatHistory, clock>>

\* index.js POST /api/chat, up to its first await.  The switch expression is
\* evaluated inside the try: when it throws, the catch answers 500.
ChatPostIndex(r, c, message, actionType) ==
    /\ variant = "index"
    /\ reqs[r].pc = "idle"
    /\ \A q \in Reqs : q < r => reqs[q].pc # "idle"
    /\ LET rq == [IdleReq EXCEPT !.user = session[c], !.message = message,
                                 !.actionType = actionType] IN
        IF InvalidMessage(message) THEN Reject(r, rq, 400)
        ELSE IF ~apiKeySet THEN Reject(r, rq, 500)
        ELSE IF LowerCaseThrows(actionType) THEN Catch(r, rq)
        ELSE Delegate(r, rq, HandlerIndex(actionType))
    /\ UNCHANGED <<variant, apiKeySet, session, chatHistory, clock>>

\* part_000 POST /api/chat, up to its first await.
ChatPostPart000(r, c, message, actionType) ==
    /\ variant = "part000"
    /\ reqs[r].pc = "idle"
    /\ \A q \in Reqs : q < r => reqs[q].pc # "idle"
    /\ LET rq == [IdleReq EXCEPT !.user = session[c], !.message = message,
                                 !.actionType = actionType] IN
        IF session[c] = NoUser THEN Reject(r, rq, 401)
        ELSE Delegate(r, rq, HandlerPart000(actionType))
    /\ UNCHANGED <<variant, apiKeySet, session, chatHistory, clock>>

\* What openai.chat.completions.create can come back with: a completion with
\* content, one with empty content, one without choices, or a rejection.
CompletionOutcomes == {"content", "empty", "nochoices", "error"}

\* What openai.images.generate can come back with.
ImageOutcomes == {"url", "nourl", "error"}

\* completion.choices[0] (part_000) throws on a completion without choices;
\* completion.choices?.[0] (index.js) does not.
CompletionThrows(outcome) ==
    \/ outcome = "error"
    \/ outcome = "nochoices" /\ variant = "part000"

\* A chat handler that answers 200 without saving the exchange.
SucceedUnsaved(r, rq) ==
    /\ reqs' = [reqs EXCEPT ![r] = Responded(rq, 200)]
    /\ resp' = ChatResponse(r, rq, 200, ResultType(rq.handler))
    /\ UNCHANGED <<chatHistory, clock>>

\* The handler returned its result: part_000 saves the exchange, then both
\* variants send res.json(result).
Succeed(r, rq) ==
    /\ reqs' = [reqs EXCEPT ![r] = Responded(rq, 200)]
    /\ resp' = ChatResponse(r, rq, 200, ResultType(rq.handler))
    /\ IF variant = "part000"
       THEN /\ chatHistory' =
                saveChatMessage(chatHistory, rq.user.email,
                    Entry(clock[rq.user.email] + 1, rq.message,
                          ResultType(rq.handler), rq.actionType))
            /\ clock' = [clock EXCEPT ![rq.user.email] = @ + 1]
       ELSE UNCHANGED <<chatHistory, clock>>

\* The await on openai.chat.completions.create resumes.
CompletionReturns(r, outcome) ==
    /\ reqs[r].pc = "awaitCompletion"
    /\ LET rq == reqs[r] IN
        IF CompletionThrows(outcome)
        THEN Catch(r, rq) /\ UNCHANGED <<chatHistory, clock>>
        ELSE IF rq.handler = "image"
        THEN /\ reqs' = [reqs EXCEPT ![r] =
                    Called(rq, "images.generate", "awaitImage")]
             /\ resp' = NoResponse
             /\ UNCHANGED <<chatHistory, clock>>
        ELSE Succeed(r, rq)
    /\ UNCHANGED <<variant, apiKeySet, session>>

\* The await on openai.images.generate resumes.
ImageReturns(r, outcome) ==
    /\ reqs[r].pc = "awaitImage"
    /\ LET rq == reqs[r] IN
        IF outcome # "url"
        THEN Catch(r, rq) /\ UNCHANGED <<chatHistory, clock>>
        ELSE Succeed(r, rq)
    /\ UNCHANGED <<variant, apiKeySet, session>>

\* The bodies sent to part_000, which never inspects message.
MessagesPart000 == {JsString(<<"h", "i">>)}

IdleHistory == saved = << >>

IdleRoutes ==
    /\ files = {}
    /\ routed = << >>

Init ==
    /\ InitGatewayVars
    /\ IdleHistory
    /\ IdleRoutes
    /\ IdleLedger

\* The gateway leaves the variables of the other specifications alone.
GatewayFrame == UNCHANGED <<saved, routeVars, ledgerVars>>

Next ==
    \/ \E c \in Clients, u \in Users : Login(c, u) /\ GatewayFrame
    \/ \E c \in Clients : Logout(c) /\ GatewayFrame
    \/ \E c \in Clients : GetMe(c) /\ GatewayFrame
    \/ \E c \in Clients : GetHistory(c) /\ GatewayFrame
    \/ \E c \in Clients : DeleteHistory(c) /\ GatewayFrame
    \/ \E r \in Reqs, c \in Clients, m \in Messages, a \in ActionTypes :
            ChatPostIndex(r, c, m, a) /\ GatewayFrame
    \/ \E r \in Reqs, c \in Clients, m \in MessagesPart000, a \in ActionTypes :
            ChatPostPart000(r, c, m, a) /\ GatewayFrame
    \/ \E r \in Reqs, o \in CompletionOutcomes :
            CompletionReturns(r, o) /\ GatewayFrame
    \/ \E r \in Reqs, o \in ImageOutcomes : ImageReturns(r, o) /\ GatewayFrame

Spec == Init /\ [][Next]_vars

\* Every external call that was started comes back: the pending await of each
\* request resumes, with a result or with a rejection.
CallsReturn ==
    \A r \in Reqs :
        /\ WF_vars(\E o \in CompletionOutcomes :
                        CompletionReturns(r, o) /\ GatewayFrame)
        /\ WF_vars(\E o \in ImageOutcomes : ImageReturns(r, o) /\ GatewayFrame)

SpecLive == Init /\ [][Next]_vars /\ CallsReturn

InitLedger ==
    /\ InitLedgerVars
    /\ IdleGateway
    /\ IdleHistory
    /\ IdleRoutes

LedgerFrame == UNCHANGED <<gatewayVars, saved, routeVars>>

NextL ==
    \/ \E t \in Tasks, u \in Keys, f \in Features, c \in Costs :
            UnlockLoad(t, u, f, c) /\ LedgerFrame
    \/ \E t \in Tasks : UnlockCheck(t) /\ LedgerFrame
    \/ \E t \in Tasks : UnlockPersist(t) /\ LedgerFrame

SpecLedger == InitLedger /\ [][NextL]_vars

(***************************************************************************)
(*          THE HISTORY ENDPOINTS AT THE REAL LIMIT (SpecHistory)          *)
(* part_000 with one browser logged in: exchanges of its user are saved,   *)
(* read back and cleared.  `saved` records what was saved since the last   *)
(* clear.                                                                  *)
(***************************************************************************)

\* Number of saveChatMessage calls a run may make.
MaxSaves == 52

InitHistory ==
    /\ variant = "part000"
    /\ apiKeySet = TRUE
    /\ session \in [Clients -> Users]
    /\ chatHistory = << >>
    /\ clock = [e \in Emails |-> 0]
    /\ reqs = << >>
    /\ resp = NoResponse
    /\ saved = [e \in Emails |-> << >>]
    /\ IdleRoutes
    /\ IdleLedger

\* saveChatMessage(req.user.email, message, result, actionType), as the chat
\* handler of the browser's user calls it.
HistorySave(c) ==
    /\ clock[session[c].email] < MaxSaves
    /\ LET email == session[c].email
           entry == Entry(clock[email] + 1, JsString(<<"h", "i">>), "text", "chat") IN
        /\ chatHistory' = saveChatMessage(chatHistory, email, entry)
        /\ clock' = [clock EXCEPT ![email] = @ + 1]
        /\ saved' = [saved EXCEPT ![email] = Append(@, entry)]
    /\ resp' = NoResponse
    /\ UNCHANGED <<variant, apiKeySet, session, reqs>>

HistoryRead(c) ==
    /\ GetHistory(c)
    /\ UNCHANGED saved

HistoryClear(c) ==
    /\ DeleteHistory(c)
    /\ saved' = [saved EXCEPT ![session[c].email] = << >>]

HistoryFrame == UNCHANGED <<routeVars, ledgerVars>>

NextH ==
    \/ \E c \in Clients : HistorySave(c) /\ HistoryFrame
    \/ \E c \in Clients : HistoryRead(c) /\ HistoryFrame
    \/ \E c \in Clients : HistoryClear(c) /\ HistoryFrame

SpecHistory == InitHistory /\ [][NextH]_vars

(***************************************************************************)
(*                     EXPRESS ROUTING (SpecRoutes)                        *)
(* app.use / app.get / app.post register a stack; a request is answered by *)
(* the first entry that matches its method and path.  A path is the        *)
(* sequence of its segments.                                               *)
(***************************************************************************)

Lit(name) == [kind |-> "lit", name |-> name]

\* ":page"
Param == [kind |-> "param", name |-> "page"]

\* ":page.html"
ParamHtml == [kind |-> "paramHtml", name |-> "page"]

Route(method, pattern, handler) ==
    [method |-> method, pattern |-> pattern, handler |-> handler]

\* index.js, in registration order (after express.static).
RoutesIndex ==
    << Route("GET",  <<Lit("auth"), Lit("google")>>, "auth"),
       Route("GET",  <<Lit("auth"), Lit("google"), Lit("callback")>>, "auth"),
       Route("GET",  <<Lit("auth"), Lit("github")>>, "auth"),
       Route("GET",  <<Lit("auth"), Lit("github"), Lit("callback")>>, "auth"),
       Route("POST", <<Lit("logout")>>, "logout"),
       Route("GET",  <<Lit("api"), Lit("me")>>, "me"),
       Route("POST", <<Lit("api"), Lit("chat")>>, "chat"),
       Route("GET",  << >>, "root"),
       Route("GET",  <<Param>>, "page"),
       Route("GET",  <<Lit("health")>>, "health") >>

\* part_000, in registration order (after express.static).
RoutesPart000 ==
    << Route("GET",    <<Lit("auth"), Lit("google")>>, "auth"),
       Route("GET",    <<Lit("auth"), Lit("google"), Lit("callback")>>, "auth"),
       Route("GET",    <<Lit("auth"), Lit("github")>>, "auth"),
       Route("GET",    <<Lit("auth"), Lit("github"), Lit("callback")>>, "auth"),
       Route("POST",   <<Lit("logout")>>, "logout"),
       Route("GET",    <<Lit("api"), Lit("me")>>, "me"),
       Route("POST",   <<Lit("api"), Lit("chat")>>, "chat"),
       Route("GET",    <<Lit("api"), Lit("models")>>, "models"),
       Route("GET",    <<Lit("api"), Lit("chat"), Lit("history")>>, "history"),
       Route("DELETE", <<Lit("api"), Lit("chat"), Lit("history")>>, "clear"),
       Route("POST",   <<Lit("api"), Lit("profile"), Lit("update")>>, "profile"),
       Route("GET",    <<Lit("api"), Lit("plan")>>, "plan"),
       Route("GET",    << >>, "root"),
       Route("GET",    <<ParamHtml>>, "pageHtml"),
       Route("GET",    <<Param>>, "page"),
       Route("GET",    <<Lit("health")>>, "health") >>

Routes(v) == IF v = "index" THEN RoutesIndex ELSE RoutesPart000

\* The segments that end in ".html".
HtmlSegments == {"index.html", "nplans.html", "health.html"}

\* One pattern segment against one path segment.
SegmentMatches(p, seg) ==
    CASE p.kind = "lit"       -> seg = p.name
      [] p.kind = "param"     -> TRUE
      [] p.kind = "paramHtml" -> seg \in HtmlSegments

\* path-to-regexp: the same number of segments, each matching.
PathMatches(pattern, path) ==
    /\ Len(pattern) = Len(path)
    /\ \A i \in 1..Len(path) : SegmentMatches(pattern[i], path[i])

\* express.static(__dirname): a GET of an existing file, "/" being index.html.
StaticServes(fs, method, path) ==
    /\ method = "GET"
    /\ \/ path = << >> /\ "index.html" \in fs
       \/ Len(path) = 1 /\ path[1] \in fs

\* The handler that answers: the first entry of the stack that matches.
Dispatch(v, fs, method, path) ==
    LET rs      == Routes(v)
        matches == {i \in 1..Len(rs) :
                        rs[i].method = method /\ PathMatches(rs[i].pattern, path)} IN
    IF StaticServes(fs, method, path) THEN "static"
    ELSE IF matches = {} THEN "notFound"
    ELSE rs[CHOOSE i \in matches : \A j \in matches : i <= j].handler

\* index.js: (req.params.page || "").replace(/[^a-zA-Z0-9-_]/g, "") + ".html"
SafePageFile(seg) ==
    CASE seg = "health"      -> "health.html"
      [] seg = "nplans"      -> "nplans.html"
      [] seg = "logout"      -> "logout.html"
      [] seg = "health.html" -> "healthhtml.html"
      [] seg = "nplans.html" -> "nplanshtml.html"
      [] seg = "index.html"  -> "indexhtml.html"
      [] OTHER               -> "other.html"

\* part_000: const allowedPages = [...]
AllowedPages == {"login-signup", "nplans", "terms", "privacy", "refund"}

\* GET /health: the JSON body.
HealthBody == [status |-> "OK", service |-> "GoldenArabicAI"]

NoBody == [status |-> Nil, service |-> Nil]

\* The status and body the answering handler sends; the API handlers are
\* the actions of Spec, here they only count as having answered.
Answer(v, fs, handler, path) ==
    CASE handler = "health" -> [status |-> 200, body |-> HealthBody]
      [] handler = "notFound" -> [status |-> 404, body |-> NoBody]
      [] handler = "pageHtml" ->
            [status |-> IF path[1] \in fs THEN 200 ELSE 404, body |-> NoBody]
      [] handler = "page" /\ v = "index" ->
            [status |-> IF SafePageFile(path[1]) \in fs THEN 200 ELSE 404,
             body |-> NoBody]
      [] handler = "page" /\ v # "index" ->
            [status |-> IF path[1] \in AllowedPages /\ SafePageFile(path[1]) \in fs
                        THEN 200 ELSE 404,
             body |-> NoBody]
      [] OTHER -> [status |-> 200, body |-> NoBody]

FileNames == {"index.html", "nplans.html", "health.html", "health"}

Methods == {"GET", "POST", "DELETE"}

Paths ==
    { << >>, <<"health">>, <<"nplans">>, <<"nplans.html">>, <<"health.html">>,
      <<"logout">>, <<"api", "me">>, <<"api", "chat">>,
      <<"api", "chat", "history">>, <<"api", "health">> }

InitRoutes ==
    /\ variant \in Variants
    /\ files \in SUBSET FileNames
    /\ routed = [method |-> Nil, path |-> << >>, handler |-> Nil,
                 status |-> 0, body |-> NoBody]
    /\ apiKeySet = FALSE
    /\ session = << >>
    /\ chatHistory = << >>
    /\ clock = << >>
    /\ reqs = << >>
    /\ resp = NoResponse
    /\ IdleHistory
    /\ IdleLedger

\* One HTTP request goes through the stack.
Request(method, path) ==
    /\ LET handler == Dispatch(variant, files, method, path)
           answer  == Answer(variant, files, handler, path) IN
        routed' = [method |-> method, path |-> path, handler |-> handler,
                   status |-> answer.status, body |-> answer.body]
    /\ UNCHANGED files

NextR ==
    \E method \in Methods, path \in Paths :
        Request(method, path) /\ UNCHANGED <<gatewayVars, saved, ledgerVars>>

SpecRoutes == InitRoutes /\ [][NextR]_vars

(***************************************************************************)
(*                              PROPERTIES                                 *)
(***************************************************************************)

\* No element of the sequence occurs twice.
NoRepeat(seq) == \A i, j \in 1..Len(seq) : i # j => seq[i] # seq[j]

\* C1: GET /api/me answered for a request without req.user says
\* loggedIn = false and balance = 0, whatever happened before (Spec).
C1_MeUnauthenticated ==
    (resp.route = "me" /\ resp.user = NoUser) =>
        /\ resp.status = 200
        /\ resp.body.loggedIn = FALSE
        /\ resp.body.balance = 0

\* GET /api/me is answered without a user after a user had logged in, had an
\* exchange saved and logged out again.
C1_Witness ==
    /\ resp.route = "me"
    /\ resp.user = NoUser
    /\ \E e \in Emails : clock[e] > 0

\* C2: every balance, in the store and in every loaded document, is a
\* non-negative integer (SpecLedger).
C2_BalanceNonNegative ==
    /\ \A u \in DOMAIN store : store[u].balance \in Nat
    /\ \A t \in Tasks :
            \A u \in DOMAIN tasks[t].doc : tasks[t].doc[u].balance \in Nat

\* One unlock was debited and a later one, too expensive for what was left,
\* was rejected.
C2_Witness ==
    \E t1, t2 \in Tasks :
        /\ tasks[t1].result = "success" /\ tasks[t1].cost > 0
        /\ tasks[t2].result = "InsufficientBalance"
        /\ tasks[t2].key = tasks[t1].key
        /\ store[tasks[t1].key].balance = tasks[t1].newBalance

\* C3: an unlockFeature call that read balance b with 0 <= cost <= b passes
\* the check, and when it has persisted the call has succeeded, getBalance is
\* b - cost and the feature is active (SpecLedger).
C3_UnlockSucceeds ==
    [][\A t \in Tasks :
        /\ (tasks[t].pc = "loaded" /\ tasks'[t].pc # "loaded"
                /\ tasks[t].cost <= tasks[t].read)
            => tasks'[t].pc = "debited"
        /\ (tasks[t].pc = "debited" /\ tasks'[t].pc # "debited")
            => /\ tasks'[t].pc = "done"
               /\ tasks'[t].result = "success"
               /\ tasks'[t].newBalance = tasks[t].read - tasks[t].cost
               /\ getBalance(store', tasks[t].key) = tasks[t].read - tasks[t].cost
               /\ isFeatureActive(store', tasks[t].key, tasks[t].feature)
      ]_vars

\* A call with a positive cost succeeded and the store holds its new balance
\* and its subscription.
C3_Witness ==
    \E t \in Tasks :
        /\ tasks[t].pc = "done" /\ tasks[t].result = "success"
        /\ tasks[t].cost > 0
        /\ getBalance(store, tasks[t].key) = tasks[t].read - tasks[t].cost
        /\ isFeatureActive(store, tasks[t].key, tasks[t].feature)

\* C4: an unlockFeature call that read balance b < cost ends with
\* InsufficientBalance in the step of its check, and that step leaves the
\* whole store (balances and subscriptions) as it was (SpecLedger).
C4_InsufficientBalance ==
    [][\A t \in Tasks :
        (tasks[t].pc = "loaded" /\ tasks'[t].pc # "loaded"
            /\ tasks[t].cost > tasks[t].read)
        => /\ tasks'[t].pc = "done"
           /\ tasks'[t].result = "InsufficientBalance"
           /\ store' = store
      ]_vars

\* The scenario of spec.md 8: balance 100, unlock of 40 leaves 60, unlock of
\* 70 fails and the balance is still 60.
C4_Witness ==
    \E t1, t2 \in Tasks :
        /\ tasks[t1].result = "success"
        /\ tasks[t1].read = 100 /\ tasks[t1].cost = 40 /\ tasks[t1].newBalance = 60
        /\ tasks[t2].result = "InsufficientBalance"
        /\ tasks[t2].key = tasks[t1].key
        /\ tasks[t2].read = 60 /\ tasks[t2].cost = 70
        /\ getBalance(store, tasks[t1].key) = 60

\* C5: when all MaxTasks calls for one key and one positive cost have
\* returned, and the opening balance of the key was MaxTasks * cost, the
\* balance is 0 (SpecLedger).
C5_NoLostDebit ==
    \A u \in Keys, c \in Costs \ {0} :
        ( /\ \A t \in Tasks : /\ tasks[t].pc = "done"
                              /\ tasks[t].key = u
                              /\ tasks[t].cost = c
          /\ opening[u].balance = MaxTasks * c )
        => getBalance(store, u) = 0

\* C6: a POST /api/chat request without req.user has made no external call,
\* neither while it runs nor when it is answered (Spec).
C6_NoInferenceUnauthenticated ==
    /\ \A r \in Reqs : reqs[r].user = NoUser => reqs[r].calls = << >>
    /\ (resp.route = "chat" /\ resp.user = NoUser) => resp.calls = << >>

\* C7: a request never issues the same external call twice; a rejected
\* external call ends the request in that step with the single response 500
\* and no new call; a request that has answered does nothing more (Spec).
C7_NoRetry ==
    /\ [](\A r \in Reqs : NoRepeat(reqs[r].calls))
    /\ [](resp.route = "chat" => NoRepeat(resp.calls))
    /\ [][\A r \in Reqs :
            /\ ( \/ CompletionReturns(r, "error")
                 \/ ImageReturns(r, "error") )
               => /\ reqs'[r].pc = "done"
                  /\ reqs'[r].responses = <<500>>
                  /\ resp'.route = "chat" /\ resp'.req = r
                  /\ resp'.status = 500
                  /\ resp'.calls = reqs[r].calls
            /\ reqs[r].pc = "done" => reqs'[r] = reqs[r]
       ]_vars

\* Image generation: the prompt enhancement succeeded, images.generate was
\* rejected, and the request was answered 500 after exactly those two calls.
C7_Witness ==
    /\ resp.route = "chat"
    /\ resp.status = 500
    /\ resp.calls = <<"chat.completions", "images.generate">>
    /\ reqs[resp.req].responses = <<500>>

\* The history GET /api/chat/history shows to user u.
HistoryOf(h, u) == HistoryGet(h, u.email)

\* C8: a chat exchange saved for one account, or a clear by one account,
\* leaves the history of every account with another (externalId, provider)
\* key as it was (Spec).
C8_NoMergeAcrossProviders ==
    [][/\ \A r \in Reqs :
            (reqs[r].pc \in {"awaitCompletion", "awaitImage"}
                /\ reqs'[r].pc = "done")
            => \A v \in Users :
                    KeyOf(v) # KeyOf(reqs[r].user)
                    => HistoryOf(chatHistory', v) = HistoryOf(chatHistory, v)
       /\ \A c \in Clients :
            (DeleteHistory(c) /\ session[c] # NoUser)
            => \A v \in Users :
                    KeyOf(v) # KeyOf(session[c])
                    => HistoryOf(chatHistory', v) = HistoryOf(chatHistory, v)
      ]_vars

\* C9: every history holds at most HistoryLimit entries, namely the last
\* min(n, HistoryLimit) of the n entries saved for its email since the last
\* clear, in the order saved; GET /api/chat/history returns that list
\* (SpecHistory).
C9_HistoryRingBuffer ==
    /\ \A e \in Emails :
        LET h == HistoryGet(chatHistory, e)
            n == Len(saved[e]) IN
        /\ Len(h) <= HistoryLimit
        /\ h = SubSeq(saved[e], n - Min(n, HistoryLimit) + 1, n)
    /\ (resp.route = "history" /\ resp.status = 200)
        => resp.history = HistoryGet(chatHistory, resp.user.email)

\* More than HistoryLimit exchanges were saved since the last clear and the
\* trimmed history has just been read.
C9_Witness ==
    /\ resp.route = "history" /\ resp.status = 200
    /\ Len(saved[resp.user.email]) > HistoryLimit
    /\ Len(resp.history) = HistoryLimit
    /\ resp.history[1].timestamp = Len(saved[resp.user.email]) - HistoryLimit + 1

\* C10: GET /health is answered by the health-check handler with status "OK"
\* and service "GoldenArabicAI" (SpecRoutes).
C10_HealthAnswered ==
    (routed.method = "GET" /\ routed.path = <<"health">>) =>
        /\ routed.handler = "health"
        /\ routed.body.status = "OK"
        /\ routed.body.service = "GoldenArabicAI"

\* C11: in index.js a request has made an external call only if its message
\* is a string with a non-blank character and the API key is set; an invalid
\* message is answered 400 whether or not the key is set, a valid message
\* without a key 500, both without any external call; 400 answers nothing
\* else (Spec).
C11_CallOnlyWhenValidAndKeyed ==
    variant = "index" =>
        /\ \A r \in Reqs :
                reqs[r].calls # << >>
                => ~InvalidMessage(reqs[r].message) /\ apiKeySet
        /\ resp.route = "chat" =>
                /\ resp.calls # << >>
                    => ~InvalidMessage(resp.message) /\ apiKeySet
                /\ InvalidMessage(resp.message)
                    => resp.status = 400 /\ resp.calls = << >>
                /\ (~InvalidMessage(resp.message) /\ ~apiKeySet)
                    => resp.status = 500 /\ resp.calls = << >>
                /\ resp.status = 400 => InvalidMessage(resp.message)

\* index.js without an API key has just answered a blank message: the message
\* check came first, the answer is 400 and no call was made.
C11_Witness ==
    /\ variant = "index"
    /\ ~apiKeySet
    /\ resp.route = "chat"
    /\ resp.message = JsString(<<" ">>)
    /\ resp.status = 400
    /\ resp.calls = << >>

\* The handler the claim names for an actionType: the three named values
\* select their handlers, every other value and a missing one select chat
\* completion.
HandlerClaimed(actionType) ==
    IF actionType \in {"image", "code", "translate"} THEN actionType ELSE "chat"

\* The request answered by rsp got past the early returns of its variant.
PassedChecks(rsp) ==
    IF variant = "index"
    THEN ~InvalidMessage(rsp.message) /\ apiKeySet
    ELSE rsp.user # NoUser

\* C12: a request that got past the early returns runs the one handler its
\* actionType selects ("image", "code", "translate", everything else chat
\* completion), makes only that handler's calls, and a 200 response carries
\* that handler's type (Spec).
C12_HandlerByActionType ==
    /\ \A r \in Reqs :
            reqs[r].pc \in {"awaitCompletion", "awaitImage"}
            => reqs[r].handler = HandlerClaimed(reqs[r].actionType)
    /\ (resp.route = "chat" /\ PassedChecks(resp))
        => /\ resp.handler = HandlerClaimed(resp.actionType)
           /\ resp.status = 200
                => /\ resp.type = ResultType(HandlerClaimed(resp.actionType))
                   /\ resp.calls = IF resp.handler = "image"
                                   THEN <<"chat.completions", "images.generate">>
                                   ELSE <<"chat.completions">>

\* Request r is answered in this step.
Answered(r) == reqs[r].pc # "done" /\ reqs'[r].pc = "done"

\* C13: in part_000, the step that answers a request 200 is the step that
\* appends its exchange (message, result, actionType) to the history of the
\* requesting user's email, trimmed to the limit; a step that answers 401 or
\* 500 leaves the whole history map as it was; and no history grows in a step
\* that does not answer 200 a request of that history's user (Spec).
C13_HistoryAppendOnSuccess ==
    [][variant = "part000" =>
        /\ \A r \in Reqs :
                Answered(r) =>
                    IF reqs'[r].responses = <<200>>
                    THEN LET email == reqs[r].user.email
                             old   == HistoryGet(chatHistory, email)
                             new   == HistoryGet(chatHistory', email) IN
                         /\ resp'.route = "chat" /\ resp'.req = r
                         /\ resp'.status = 200
                         /\ reqs[r].user # NoUser
                         /\ new # << >>
                         /\ new[Len(new)].userMessage = reqs[r].message
                         /\ new[Len(new)].actionType = reqs[r].actionType
                         /\ new[Len(new)].aiResponse = resp'.type
                         /\ new = SliceLast(Append(old, new[Len(new)]),
                                            HistoryLimit)
                    ELSE /\ reqs'[r].responses \in {<<401>>, <<500>>}
                         /\ chatHistory' = chatHistory
        /\ \A e \in Emails :
                Len(HistoryGet(chatHistory', e)) > Len(HistoryGet(chatHistory, e))
                => \E r \in Reqs : /\ Answered(r)
                                   /\ reqs'[r].responses = <<200>>
                                   /\ reqs[r].user.email = e
      ]_vars

\* part_000 has answered one request 500 and has just answered another 200:
\* the history of the requester holds exactly the exchange of the second.
C13_Witness ==
    /\ variant = "part000"
    /\ resp.route = "chat" /\ resp.status = 200
    /\ \E r \in Reqs : reqs[r].responses = <<500>>
    /\ Len(HistoryGet(chatHistory, resp.user.email)) = 1
    /\ HistoryGet(chatHistory, resp.user.email)[1].userMessage = resp.message

\* C14: a step that answers DELETE /api/chat/history for a user answers 200,
\* leaves that user's history empty and the history of every account with
\* another (externalId, provider) key as it was; for no user it answers 401
\* and leaves the history map as it was; a GET /api/chat/history by the same
\* user in the very next step returns the empty list (Spec).
C14_ClearOwnHistoryOnly ==
    [][/\ resp'.route = "clear" =>
            IF resp'.user = NoUser
            THEN /\ resp'.status = 401
                 /\ chatHistory' = chatHistory
            ELSE /\ resp'.status = 200
                 /\ HistoryOf(chatHistory', resp'.user) = << >>
                 /\ \A v \in Users :
                        KeyOf(v) # KeyOf(resp'.user)
                        => HistoryOf(chatHistory', v) = HistoryOf(chatHistory, v)
       /\ (resp.route = "clear" /\ resp.status = 200 /\ resp'.route = "history")
            => (resp'.user = resp.user => resp'.history = << >>)
      ]_vars

\* C15: a request has sent one response when it is done and none before; the
\* response is 200, 400, 401 or 500; a done request does nothing more; and,
\* when every started external call comes back, every request that was
\* received is eventually done, whatever the other requests do (SpecLive).
C15_ExactlyOneResponse ==
    /\ [](\A r \in Reqs :
            /\ Len(reqs[r].responses) = IF reqs[r].pc = "done" THEN 1 ELSE 0
            /\ reqs[r].pc = "done" => reqs[r].responses[1] \in {200, 400, 401, 500})
    /\ [][\A r \in Reqs :
            /\ reqs[r].pc = "done" => reqs'[r] = reqs[r]
            /\ Answered(r) => /\ resp'.route = "chat" /\ resp'.req = r
                              /\ reqs'[r].responses = <<resp'.status>>
         ]_vars
    /\ \A r \in Reqs : (reqs[r].pc # "idle") ~> (reqs[r].pc = "done")

\* Two requests were in flight at once: the second has been answered 200
\* while the first still awaits its image.
C15_Witness ==
    /\ reqs[1].pc = "awaitImage"
    /\ reqs[2].pc = "done"
    /\ reqs[2].responses = <<200>>

=============================================================================
